---------------------------- MODULE Spec2Model ----------------------------
(***************************************************************************)
(* Model of the benchmark pipeline of raoc:                                *)
(*   - template/readme_benchmarks.rs : locate_table, construct_table,      *)
(*     update_content (the README patcher);                                *)
(*   - template/commands/all.rs : child_commands::parse_exec_bench,        *)
(*     parse_time, parse_heap_allocation (the measurement line parser)     *)
(*     and child_commands::run_solution (the process orchestrator).        *)
(*                                                                         *)
(* Rust String and &str values   are TLA+ strings; the str methods the code  *)
(* uses (split, contains, trim, match_indices, replace_range) are the      *)
(* operators of the first section, computed character by character.        *)
(* f64 values are modelled exactly (no rounding): a nanosecond amount is   *)
(* a pair of integers, see the section on numbers.                         *)
(***************************************************************************)
EXTENDS Integers, Sequences, FiniteSets, TLC

VARIABLES
    \* ---- readme_benchmarks.rs: update_content ----
    s,            \* the README text (s: &mut String)
    source,       \* the README text before the first update_content call
    prev,         \* the README text before the latest update_content call
    first,        \* the README text after the first update_content call
    timings,      \* timings: Vec<Benchmark>, handed to every call
    total_millis, \* total_millis: f64, in hundredths of a millisecond
    result,       \* what the latest update_content call returned
    applied,      \* number of update_content calls made so far
    \* ---- all.rs: parse_exec_bench ----
    origin,       \* how each line of output was produced by the child
    output,       \* output: Vec<String>, the lines of the primary stream
    bench,        \* the Benchmark parse_exec_bench returned (or NoBench)
    \* ---- all.rs: run_solution ----
    scaffolded,   \* Path::new(&get_path_for_bin(day)).exists()
    io_error,     \* the system call that fails: "none" | "spawn" | "wait"
    script,       \* the writes the child still has to make
    child,        \* "running" | "exited" | "none"
    exit_code,    \* the child's exit status code
    stdout_pipe,  \* lines in the stdout pipe, not yet read
    stderr_pipe,  \* lines in the stderr pipe, not yet read
    wrote_out,    \* every line the child wrote to stdout, in order
    wrote_err,    \* every line the child wrote to stderr, in order
    main_pc,      \* position of the calling thread inside run_solution
    thread_pc,    \* position of the spawned stderr thread
    console_out,  \* lines forwarded with println!
    console_err,  \* lines forwarded with eprintln!
    status,       \* the ExitStatus cmd.wait() collected (or NoStatus)
    ret           \* the value run_solution returned (or NoReturn)

patch_vars == <<s, source, prev, first, timings, total_millis, result, applied>>
parse_vars == <<origin, bench>>
run_vars   == <<scaffolded, io_error, script, child, exit_code, stdout_pipe, stderr_pipe,
                wrote_out, wrote_err, main_pc, thread_pc, console_out,
                console_err, status, ret>>
vars == <<patch_vars, parse_vars, output, run_vars>>

-----------------------------------------------------------------------------
(***************************************************************************)
(* Rust str methods                                                        *)
(***************************************************************************)

\* The character of t at position i (1-based), as a one-character string.
CharAt(t, i) == SubSeq(t, i, i)

\* Whether pat occurs in t starting at position i.
StartsAt(t, pat, i) ==
    /\ i >= 1
    /\ i + Len(pat) - 1 <= Len(t)
    /\ SubSeq(t, i, i + Len(pat) - 1) = pat

\* str::find: position of the first occurrence of pat at or after i, 0 if none.
FindFrom(t, pat, i) ==
    LET hits == {j \in i..(Len(t) - Len(pat) + 1) : StartsAt(t, pat, j)}
    IN  IF hits = {} THEN 0
        ELSE CHOOSE j \in hits : \A k \in hits : j <= k

\* str::contains
Contains(t, pat) == FindFrom(t, pat, 1) # 0

\* str::match_indices: the offsets (0-based, as in Rust) of the
\* non-overlapping occurrences of pat, found left to right.
RECURSIVE MatchIndicesFrom(_, _, _)
MatchIndicesFrom(t, pat, i) ==
    LET p == FindFrom(t, pat, i)
    IN  IF p = 0 THEN <<>>
        ELSE <<p - 1>> \o MatchIndicesFrom(t, pat, p + Len(pat))

match_indices(t, pat) == MatchIndicesFrom(t, pat, 1)

\* str::split(pat).next(): the text before the first occurrence of pat
\* (the whole text when pat does not occur). Never None.
SplitNext(t, pat) ==
    LET p == FindFrom(t, pat, 1)
    IN  IF p = 0 THEN t ELSE SubSeq(t, 1, p - 1)

\* str::split(pat).last(): the text after the last of the non-overlapping
\* occurrences of pat (the whole text when pat does not occur). Never None.
SplitLast(t, pat) ==
    LET m == match_indices(t, pat)
    IN  IF m = <<>> THEN t
        ELSE SubSeq(t, m[Len(m)] + Len(pat) + 1, Len(t))

IsWhitespace(c) == c \in {" ", "\t", "\n", "\r"}

RECURSIVE TrimStart(_)
TrimStart(t) ==
    IF Len(t) > 0 /\ IsWhitespace(CharAt(t, 1))
    THEN TrimStart(SubSeq(t, 2, Len(t))) ELSE t

RECURSIVE TrimEnd(_)
TrimEnd(t) ==
    IF Len(t) > 0 /\ IsWhitespace(CharAt(t, Len(t)))
    THEN TrimEnd(SubSeq(t, 1, Len(t) - 1)) ELSE t

\* str::trim
Trim(t) == TrimEnd(TrimStart(t))

\* String::replace_range(from..to, with): from and to are 0-based offsets,
\* to is exclusive, as in Rust.
replace_range(t, from, to, with) ==
    SubSeq(t, 1, from) \o with \o SubSeq(t, to + 1, Len(t))

\* [String].join(sep)
RECURSIVE Join(_, _)
Join(ls, sep) ==
    IF ls = <<>> THEN ""
    ELSE IF Len(ls) = 1 THEN ls[1]
    ELSE ls[1] \o sep \o Join(Tail(ls), sep)

DigitChar == <<"0", "1", "2", "3", "4", "5", "6", "7", "8", "9">>

\* Display of an unsigned integer.
RECURSIVE FmtNat(_)
FmtNat(n) ==
    IF n < 10 THEN DigitChar[n + 1]
    ELSE FmtNat(n \div 10) \o DigitChar[(n % 10) + 1]

-----------------------------------------------------------------------------
(***************************************************************************)
(* Option<T>: None is the empty sequence, Some(x) a one-element sequence.  *)
(***************************************************************************)
None == <<>>
Some(x) == <<x>>
unwrap_or(o, d) == IF o = None THEN d ELSE o[1]

-----------------------------------------------------------------------------
(***************************************************************************)
(* Numbers. An f64 amount of nanoseconds is [hi, lo]: hi whole             *)
(* milliseconds (10^6 ns) plus lo hundredths of a nanosecond, lo < 10^8.   *)
(* Two limbs keep every value inside TLC's 32-bit integers.                *)
(***************************************************************************)
LoBase == 100 * 1000000

Nanos(hi, lo) == [hi |-> hi, lo |-> lo]
ZeroNanos == Nanos(0, 0)

\* f64 addition (bench.total_nanos += nanos)
AddNanos(a, b) ==
    LET l == a.lo + b.lo
    IN  Nanos(a.hi + b.hi + (l \div LoBase), l % LoBase)

-----------------------------------------------------------------------------
(***************************************************************************)
(* template/readme_benchmarks.rs                                           *)
(***************************************************************************)
MARKER == "<!--- benchmarking table --->"

\* Display of Day: two digits, zero padded ("01" .. "25").
DayDisplay(day) == IF day < 10 THEN "0" \o FmtNat(day) ELSE FmtNat(day)

get_path_for_bin(day) == "./src/bin/" \o DayDisplay(day) \o ".rs"

\* Result<TablePosition, Error>: err is "" for Ok.
TablePosition(pos_start, pos_end) ==
    [err |-> "", pos_start |-> pos_start, pos_end |-> pos_end]
ParserError(msg) == [err |-> msg, pos_start |-> 0, pos_end |-> 0]

TooManyMsg == "{}: too many occurences of marker in README."
NoStartMsg == "Could not find table start position."
NoEndMsg   == "Could not find table end position."

\* locate_table with the span ending where the last marker starts, so that
\* the closing marker token stays outside the replaced range.
locate_table_before_last_marker(readme) ==
    LET matches == match_indices(readme, MARKER)
    IN  IF Len(matches) > 2 THEN ParserError(TooManyMsg)
        ELSE IF matches = <<>> THEN ParserError(NoStartMsg)
        ELSE TablePosition(matches[1], matches[Len(matches)])

locate_table(readme) ==
    LET matches == match_indices(readme, MARKER)
    IN  IF Len(matches) > 2 THEN ParserError(TooManyMsg)
        ELSE IF matches = <<>> THEN ParserError(NoStartMsg)  \* matches.first()
        ELSE IF matches = <<>> THEN ParserError(NoEndMsg)    \* matches.last()
        ELSE TablePosition(matches[1], matches[Len(matches)] + Len(MARKER))

\* format!("{total_millis:.2}"), total_millis given in hundredths.
FmtMillis(m) ==
    FmtNat(m \div 100) \o "." \o FmtNat((m % 100) \div 10) \o FmtNat(m % 10)

Dash == <<"-", "-">>

\* The code-quote character of the table cells. A TLA+ string literal cannot
\* hold U+0060, so the apostrophe stands for it; no other text of the model
\* contains an apostrophe.
Tick == "'"

TableRow(b) ==
    LET p1 == unwrap_or(b.part_1, Dash)
        p2 == unwrap_or(b.part_2, Dash)
    IN  "| [Day " \o FmtNat(b.day) \o "](" \o get_path_for_bin(b.day)
        \o ") | " \o Tick \o p1[1] \o Tick \o " " \o Tick \o p1[2] \o Tick
        \o " | " \o Tick \o p2[1] \o Tick \o " " \o Tick \o p2[2] \o Tick
        \o " |"

\* The println!("{:?}", bench) of the loop writes to the console only.
construct_table(prefix, benchmarks, millis) ==
    LET header == prefix \o " Benchmarks"
        lines  == <<MARKER, header, "",
                    "| Day | Part 1 | Part 2 |",
                    "| :---: | :---: | :---:  |">>
                  \o [i \in 1..Len(benchmarks) |-> TableRow(benchmarks[i])]
                  \o <<"", "**Total time: " \o FmtMillis(millis) \o "ms**\n",
                       MARKER>>
    IN  Join(lines, "\n")

\* The new text and the returned Result of update_content(s, timings, millis).
update_content(text, benches, millis) ==
    LET positions == locate_table(text)
    IN  IF positions.err # "" THEN [s |-> text, result |-> positions.err]
        ELSE [s |-> replace_range(text, positions.pos_start, positions.pos_end,
                                  construct_table("##", benches, millis)),
              result |-> "Ok"]

-----------------------------------------------------------------------------
(***************************************************************************)
(* Bounds and input sets of the patcher                                    *)
(***************************************************************************)
MaxPieces == 3   \* a README is at most this many pieces of text
MaxBench  == 2   \* at most this many benchmarks in timings
MaxApply  == 3   \* update_content is called at most this many times

SeqsUpTo(S, n) == UNION {[1..k -> S] : k \in 0..n}

RECURSIVE Concat(_)
Concat(ls) == IF ls = <<>> THEN "" ELSE ls[1] \o Concat(Tail(ls))

\* Pieces a README is made of: plain text, the marker, a truncated marker
\* and a heading written by hand.
DocPieces == {"foo\nbar\n", MARKER, "<!--- bench", "## Benchmarks\n"}
\* READMEs with text on both sides of the table: the documents of the tests
\* updates_empty_benchmarks and format_benchmarks, and one whose markers
\* enclose a table written earlier.
ReadmeDocs ==
    { "foo\nbar\n" \o MARKER \o MARKER \o "\nbaz",
      "foo\nbar\n" \o MARKER \o "\n" \o MARKER \o "\nbaz",
      "foo\nbar\n" \o MARKER \o "\n## Benchmarks\n\n| Day |\n" \o MARKER
          \o "\nbaz" }
Docs == {Concat(ps) : ps \in SeqsUpTo(DocPieces, MaxPieces)} \cup ReadmeDocs

Benchmark(day, part_1, part_2, total_nanos) ==
    [day |-> day, part_1 |-> part_1, part_2 |-> part_2,
     total_nanos |-> total_nanos]

\* Benchmarks as parse_exec_bench can return them: both parts timed; one
\* part missing; a memory text that itself contains the marker (the line
\* "Part 1: 0 (5ns @ 1 samples) (<!--- benchmarking table --->B)").
BenchPool ==
    { Benchmark(1, Some(<<"10ms", "10B">>), Some(<<"20ms", "20B">>),
                Nanos(30, 0)),
      Benchmark(2, Some(<<"30ms", "30B">>), None, Nanos(30, 0)),
      Benchmark(4, Some(<<"5ns", MARKER \o "B">>), None, Nanos(0, 500)) }

MillisPool == {5, 19000}

IdlePatch ==
    /\ s = "" /\ source = "" /\ prev = "" /\ first = "" /\ timings = <<>>
    /\ total_millis = 0 /\ result = "none" /\ applied = 0

NoBench == Benchmark(0, None, None, ZeroNanos)

IdleParse == origin = <<>> /\ bench = NoBench

IdleRun ==
    /\ scaffolded = FALSE /\ io_error = "none"
    /\ script = <<>> /\ child = "none" /\ exit_code = 0
    /\ stdout_pipe = <<>> /\ stderr_pipe = <<>>
    /\ wrote_out = <<>> /\ wrote_err = <<>>
    /\ main_pc = "idle" /\ thread_pc = "idle"
    /\ console_out = <<>> /\ console_err = <<>>
    /\ status = None /\ ret = None

-----------------------------------------------------------------------------
(***************************************************************************)
(* The patcher as a state machine: a README and benchmark data are chosen, *)
(* then update_content is called repeatedly with the same data.            *)
(***************************************************************************)
InitPatch ==
    /\ s \in Docs
    /\ source = s
    /\ prev = s
    /\ first = s
    /\ timings \in SeqsUpTo(BenchPool, MaxBench)
    /\ total_millis \in MillisPool
    /\ result = "none"
    /\ applied = 0
    /\ IdleParse /\ output = <<>> /\ IdleRun

UpdateContent ==
    /\ applied < MaxApply
    /\ LET r == update_content(s, timings, total_millis)
       IN  /\ s' = r.s
           /\ result' = r.result
           /\ first' = IF applied = 0 THEN r.s ELSE first
    /\ prev' = s
    /\ applied' = applied + 1
    /\ UNCHANGED <<source, timings, total_millis, parse_vars, output, run_vars>>

NextPatch == UpdateContent

SpecPatch == InitPatch /\ [][NextPatch]_vars

-----------------------------------------------------------------------------
(***************************************************************************)
(* Properties of the patcher                                             *)
(***************************************************************************)
MarkerCount(text) == Len(match_indices(text, MARKER))

\* The heading as construct_table renders it: the line after the opening
\* marker.
RenderedHeading == MARKER \o "\n" \o "## Benchmarks" \o "\n"
HeadingCount(text) == Len(match_indices(text, RenderedHeading))

\* C1: update_content returns an error for every document whose number of
\* marker occurrences is not exactly two (zero, one, three or more) and
\* succeeds only when the marker occurs exactly twice.
C1_ErrorUnlessExactlyTwoMarkers ==
    applied > 0 => (result = "Ok" <=> MarkerCount(prev) = 2)

\* C2: for every document with exactly two markers and every list of
\* benchmarks, every application of update_content with the same data
\* succeeds and leaves exactly two markers and exactly one rendered
\* heading, the document being the one the first application produced.
C2_PatchIdempotent ==
    (applied > 0 /\ MarkerCount(source) = 2) =>
        /\ result = "Ok"
        /\ MarkerCount(s) = 2
        /\ HeadingCount(s) = 1
        /\ s = first

\* The parts of a document around its markers, read off the text itself:
\* what precedes the first marker, what follows the last marker, and the
\* span in between, both marker tokens included.
FirstMarkerAt(text) == FindFrom(text, MARKER, 1)
LastMarkerAt(text) ==
    LET hits == {j \in 1..Len(text) : StartsAt(text, MARKER, j)}
    IN  CHOOSE j \in hits : \A k \in hits : k <= j
BeforeFirstMarker(text) == SubSeq(text, 1, FirstMarkerAt(text) - 1)
AfterLastMarker(text) ==
    SubSeq(text, LastMarkerAt(text) + Len(MARKER), Len(text))
MarkerSpan(text) ==
    SubSeq(text, FirstMarkerAt(text), LastMarkerAt(text) + Len(MARKER) - 1)

\* C11: after a successful update_content the document is the old text
\* before the first marker, then the rendered block, then the old text
\* after the last marker: the text on both sides is unchanged and the old
\* span, both marker tokens included, is what the rendered block replaced.
C11_OnlyMarkerSpanReplaced ==
    (applied > 0 /\ result = "Ok") =>
        /\ prev = BeforeFirstMarker(prev) \o MarkerSpan(prev)
                      \o AfterLastMarker(prev)
        /\ s = BeforeFirstMarker(prev)
                   \o construct_table("##", timings, total_millis)
                   \o AfterLastMarker(prev)

\* A document with text before the opening marker, a table between the two
\* markers and text after the closing marker has been patched with
\* different benchmark data in the block.
C11_Witness ==
    /\ applied > 0
    /\ result = "Ok"
    /\ MarkerCount(prev) = 2
    /\ BeforeFirstMarker(prev) # ""
    /\ AfterLastMarker(prev) # ""
    /\ Len(MarkerSpan(prev)) > 2 * Len(MARKER)
    /\ MarkerSpan(prev) # construct_table("##", timings, total_millis)
    /\ s # prev

-----------------------------------------------------------------------------
(***************************************************************************)
(* template/commands/all.rs: the measurement line parser                   *)
(***************************************************************************)
RECURSIVE Pow10(_)
Pow10(n) == IF n = 0 THEN 1 ELSE 10 * Pow10(n - 1)

IsDigit(c) == \E i \in 1..10 : DigitChar[i] = c
DigitValue(c) == (CHOOSE i \in 1..10 : DigitChar[i] = c) - 1

\* The number a string of digits denotes.
RECURSIVE DigitsValue(_)
DigitsValue(t) ==
    IF t = "" THEN 0
    ELSE 10 * DigitsValue(SubSeq(t, 1, Len(t) - 1))
         + DigitValue(CharAt(t, Len(t)))

AllDigits(t) == \A i \in 1..Len(t) : IsDigit(CharAt(t, i))

\* str::parse::<f64>().ok() on decimal text: digits with at most one point
\* and at least one digit. The value is m / 10^d. Every other text the
\* model offers to it (empty, letters, spaces, parentheses) is rejected, as
\* Rust rejects it; signs, exponents, "inf" and "nan", which Rust would
\* accept, occur in no line of the model.
ParseF64(t) ==
    LET int  == SplitNext(t, ".")
        frac == IF Contains(t, ".")
                THEN SubSeq(t, Len(int) + 2, Len(t)) ELSE ""
    IN  IF AllDigits(int) /\ AllDigits(frac) /\ Len(int) + Len(frac) > 0
        THEN Some([m |-> DigitsValue(int \o frac), d |-> Len(frac)])
        ELSE None

\* x * 10^k nanoseconds for a parsed decimal x = m / 10^d, as a Nanos value
\* (hundredths of a nanosecond are the finest grain).
ScaleToNanos(x, k) ==
    LET e == k + 2 - x.d
    IN  IF e >= 8 THEN Nanos(x.m * Pow10(e - 8), 0)
        ELSE IF e >= 0
             THEN Nanos(x.m \div Pow10(8 - e), (x.m % Pow10(8 - e)) * Pow10(e))
        ELSE Nanos(0, x.m \div Pow10(0 - e))

\* Option<f64>::map(|x| x * 10^k)
MapScale(o, k) == IF o = None THEN None ELSE Some(ScaleToNanos(o[1], k))

parse_to_float(t, postfix) == ParseF64(SplitNext(t, postfix))

\* parse_time with the millisecond factor of the microsecond arm.
parse_time_ms_factor(line) ==
    LET str_timing ==
            Trim(SplitNext(SplitLast(SplitNext(line, " samples)"), "("), "@"))
        parsed_timing ==
            IF Contains(str_timing, "ns")
                THEN MapScale(ParseF64(SplitNext(str_timing, "ns")), 0)
            ELSE IF Contains(str_timing, "µs")
                THEN MapScale(parse_to_float(str_timing, "µs"), 3)
            ELSE IF Contains(str_timing, "ms")
                THEN MapScale(parse_to_float(str_timing, "ms"), 3)
            ELSE MapScale(parse_to_float(str_timing, "s"), 9)
    IN  IF parsed_timing = None THEN None
        ELSE Some(<<str_timing, parsed_timing[1]>>)

\* Option<(&str, f64)>
parse_time(line) ==
    LET str_timing ==
            Trim(SplitNext(SplitLast(SplitNext(line, " samples)"), "("), "@"))
        parsed_timing ==
            IF Contains(str_timing, "ns")
                THEN MapScale(ParseF64(SplitNext(str_timing, "ns")), 0)
            ELSE IF Contains(str_timing, "µs")
                THEN MapScale(parse_to_float(str_timing, "µs"), 3)
            ELSE IF Contains(str_timing, "ms")
                THEN MapScale(parse_to_float(str_timing, "ms"), 6)
            ELSE MapScale(parse_to_float(str_timing, "s"), 9)
    IN  IF parsed_timing = None THEN None
        ELSE Some(<<str_timing, parsed_timing[1]>>)

\* Option<&str>
parse_heap_allocation(line) ==
    LET str_heap_allocation == Trim(SplitNext(SplitLast(line, ") ("), ")"))
    IN  IF Contains(str_heap_allocation, "B")
        THEN Some(str_heap_allocation) ELSE None

Record(part, timing_str, nanos, heap_allocation) ==
    [part |-> part, timing_str |-> timing_str, nanos |-> nanos,
     heap_allocation |-> heap_allocation]

\* The closure of filter_map in parse_exec_bench: Option<record>.
parse_line(l) ==
    LET part == SplitNext(l, ":")
        heap == parse_heap_allocation(l)
        time == parse_time(l)
    IN  IF heap = None THEN None
        ELSE IF ~Contains(l, " samples)")
             THEN Some(Record(part, "", ZeroNanos, heap[1]))
        ELSE IF time = None THEN None
        ELSE Some(Record(part, time[1][1], time[1][2], heap[1]))

\* AddRecord with the accumulation moved inside the two label branches.
AddRecord_labelled_only(b, r) ==
    LET pair == Some(<<r.timing_str, r.heap_allocation>>)
        labelled == Contains(r.part, "Part 1") \/ Contains(r.part, "Part 2")
    IN  [b EXCEPT
            !.part_1 = IF Contains(r.part, "Part 1") THEN pair ELSE @,
            !.part_2 = IF ~Contains(r.part, "Part 1")
                          /\ Contains(r.part, "Part 2") THEN pair ELSE @,
            !.total_nanos = IF labelled THEN AddNanos(@, r.nanos) ELSE @]

\* The closure of for_each in parse_exec_bench.
AddRecord(b, r) ==
    LET pair == Some(<<r.timing_str, r.heap_allocation>>)
    IN  [b EXCEPT
            !.part_1 = IF Contains(r.part, "Part 1") THEN pair ELSE @,
            !.part_2 = IF ~Contains(r.part, "Part 1")
                          /\ Contains(r.part, "Part 2") THEN pair ELSE @,
            !.total_nanos = AddNanos(@, r.nanos)]

RECURSIVE FoldLines(_, _)
FoldLines(b, ls) ==
    IF ls = <<>> THEN b
    ELSE LET r == parse_line(Head(ls))
         IN  FoldLines(IF r = None THEN b ELSE AddRecord(b, r[1]), Tail(ls))

parse_exec_bench(out, day) ==
    FoldLines(Benchmark(day, None, None, ZeroNanos), out)

-----------------------------------------------------------------------------
(***************************************************************************)
(* The lines a child prints. A line is described by its origin: the label, *)
(* the answer, the measured duration, the sample count and the memory      *)
(* text the child formatted into it, and the stray character (if any)      *)
(* added to it.                                                            *)
(*   timed   : <label>: <value> (<duration> @ <k> samples) (<memory>)      *)
(*   untimed : <label>: <value> (<memory>)                                 *)
(*   nomem   : <label>: <value> (<duration> @ <k> samples)                 *)
(*   bare    : <label>: <value>                                            *)
(*   blank   : the empty line                                              *)
(***************************************************************************)
MaxLines == 3   \* a unit prints at most this many lines

Duration(m, d, unit) == [m |-> m, d |-> d, unit |-> unit]
NoDuration == Duration(0, 0, "")

\* The decimal m / 10^d with exactly d fractional digits.
FmtDecimal(m, d) ==
    IF d = 0 THEN FmtNat(m)
    ELSE FmtNat(m \div Pow10(d)) \o "."
         \o Concat([i \in 1..d |->
                DigitChar[((m \div Pow10(d - i)) % 10) + 1]])

\* The duration token, e.g. "74.13ns".
DurText(dur) == FmtDecimal(dur.m, dur.d) \o dur.unit

\* The power of ten that turns a unit into nanoseconds.
UnitExp(unit) ==
    CASE unit = "ns" -> 0
      [] unit = "µs" -> 3
      [] unit = "ms" -> 6
      [] unit = "s"  -> 9

\* The duration in nanoseconds, from the measured number.
DurNanos(dur) == ScaleToNanos([m |-> dur.m, d |-> dur.d], UnitExp(dur.unit))

Origin(kind, label, value, dur, k, mem, stray) ==
    [kind |-> kind, label |-> label, value |-> value, dur |-> dur, k |-> k,
     mem |-> mem, stray |-> stray]

TimingGroup(o) == "(" \o DurText(o.dur) \o " @ " \o o.k \o " samples)"
MemoryGroup(o) == "(" \o o.mem \o ")"
LinePrefix(o)  == o.label \o ": " \o o.value

BaseLine(o) ==
    CASE o.kind = "timed" ->
            LinePrefix(o) \o " " \o TimingGroup(o) \o " " \o MemoryGroup(o)
      [] o.kind = "untimed" -> LinePrefix(o) \o " " \o MemoryGroup(o)
      [] o.kind = "nomem"   -> LinePrefix(o) \o " " \o TimingGroup(o)
      [] o.kind = "bare"    -> LinePrefix(o)
      [] o.kind = "blank"   -> ""

\* The line with character ch added after its first `at` characters.
InsertAt(line, at, ch) ==
    SubSeq(line, 1, at) \o ch \o SubSeq(line, at + 1, Len(line))

Render(o) ==
    IF o.stray = None THEN BaseLine(o)
    ELSE InsertAt(BaseLine(o), o.stray[1].at, o.stray[1].ch)

Labels == {"Part 1", "Part 2", "Setup"}
Values == {"0", "ABC", "10s"}
Durations ==
    { Duration(7413, 2, "ns"), Duration(15, 1, "µs"), Duration(100, 0, "ms"),
      Duration(7413, 2, "ms"), Duration(2, 0, "s") }
ByteMems  == {"10KB", "0B"}
OtherMems == {"n/a"}
Samples   == "100000"
StrayChars == {"@", "(", ")"}

TimedLines ==
    { Origin("timed", l, v, d, Samples, m, None) :
        l \in Labels, v \in Values, d \in Durations,
        m \in ByteMems \cup OtherMems }
UntimedLines ==
    { Origin("untimed", l, v, NoDuration, "", m, None) :
        l \in Labels, v \in Values, m \in ByteMems \cup OtherMems }
NoMemLines ==
    { Origin("nomem", l, v, d, Samples, "", None) :
        l \in Labels, v \in Values, d \in Durations }
BareLines ==
    { Origin("bare", l, v, NoDuration, "", "", None) :
        l \in Labels, v \in Values \cup {"x        "} }
BlankLine == Origin("blank", "", "", NoDuration, "", "", None)

\* Timed lines with one stray character added at any place of the line.
StrayBases ==
    { Origin("timed", "Part 1", "0", d, "5", "10KB", None) :
        d \in {Duration(2, 0, "s"), Duration(7413, 2, "ns")} }
StrayLines ==
    UNION { { [o EXCEPT !.stray = Some([at |-> at, ch |-> ch])] :
                at \in 0..Len(BaseLine(o)), ch \in StrayChars } :
            o \in StrayBases }

\* The lines multi-line outputs are made of.
SmallPool ==
    { Origin("timed", "Part 1", "0", Duration(7413, 2, "ns"), Samples,
             "10KB", None),
      Origin("timed", "Part 2", "10", Duration(7413, 2, "ms"), "99999",
             "10KB", None),
      Origin("timed", "Part 1", "10s", Duration(2, 0, "s"), "5", "10B", None),
      Origin("timed", "Setup", "0", Duration(15, 1, "µs"), "5", "0B", None),
      Origin("bare", "Part 2", "x        ", NoDuration, "", "", None),
      BlankLine }

Origins ==
    {<<o>> : o \in TimedLines \cup UntimedLines \cup NoMemLines
                   \cup BareLines \cup StrayLines \cup {BlankLine}}
    \cup {os \in SeqsUpTo(SmallPool, MaxLines) : Len(os) # 1}

Days == {1, 25}

InitParse ==
    /\ origin \in Origins
    /\ output = [i \in 1..Len(origin) |-> Render(origin[i])]
    /\ bench = NoBench
    /\ IdlePatch /\ IdleRun

ParseExecBench ==
    /\ bench = NoBench
    /\ \E day \in Days : bench' = parse_exec_bench(output, day)
    /\ UNCHANGED <<patch_vars, origin, output, run_vars>>

NextParse == ParseExecBench

SpecParse == InitParse /\ [][NextParse]_vars

-----------------------------------------------------------------------------
(***************************************************************************)
(* Properties of the parser                                              *)
(***************************************************************************)
Parsed == bench # NoBench

RECURSIVE SumNanos(_)
SumNanos(ns) ==
    IF ns = <<>> THEN ZeroNanos ELSE AddNanos(Head(ns), SumNanos(Tail(ns)))

Last(S) == CHOOSE i \in S : \A j \in S : j <= i

\* A line Part P: <v> (<d> @ <k> samples) (<m>B), nothing added to it.
WellFormed(o) ==
    /\ o.kind = "timed"
    /\ o.stray = None
    /\ o.label \in {"Part 1", "Part 2"}
    /\ Contains(o.mem, "B")

LinesOf(label) == {i \in DOMAIN origin : origin[i].label = label}

\* The duration token shown for a part is that of the part's last line.
ShowsLastDuration(part, label) ==
    IF LinesOf(label) = {} THEN part = None
    ELSE /\ part # None
         /\ part[1][1] = DurText(origin[Last(LinesOf(label))].dur)

\* C3: for well-formed lines Part P: <v> (<d> @ <k> samples) (<m>B),
\* parse_exec_bench records <d> verbatim as the time display of part P and
\* adds to total_nanos the value of <d> under the unit rule (ns x1,
\* microseconds x1,000, ms x1,000,000, otherwise seconds x1,000,000,000).
C3_WellFormedLinesParsed ==
    (Parsed /\ \A i \in DOMAIN origin : WellFormed(origin[i])) =>
        /\ bench.total_nanos =
               SumNanos([i \in DOMAIN origin |-> DurNanos(origin[i].dur)])
        /\ ShowsLastDuration(bench.part_1, "Part 1")
        /\ ShowsLastDuration(bench.part_2, "Part 2")

\* The lines of the unit test test_well_formed have been parsed.
C3_Witness ==
    /\ Parsed
    /\ Len(origin) = 2
    /\ \A i \in DOMAIN origin : WellFormed(origin[i])
    /\ origin[1].dur = Duration(7413, 2, "ns")
    /\ origin[2].dur = Duration(7413, 2, "ms")
    /\ bench.total_nanos = Nanos(74, 13007413)
    /\ bench.part_1 = Some(<<"74.13ns", "10KB">>)
    /\ bench.part_2 = Some(<<"74.13ms", "10KB">>)

\* Whether the line has a parenthetical group containing the character B.
HasByteGroup(o) ==
    /\ o.kind \in {"timed", "untimed"}
    /\ Contains(o.mem, "B")

\* C4: a line with no parenthetical group containing B produces no record:
\* it sets neither part_1 nor part_2 and adds nothing to total_nanos,
\* whether or not it has a timing group.
C4_NoByteGroupNoRecord ==
    (Parsed /\ \A i \in DOMAIN origin : ~HasByteGroup(origin[i])) =>
        /\ bench.part_1 = None
        /\ bench.part_2 = None
        /\ bench.total_nanos = ZeroNanos

\* Offsets of the two groups in a timed line.
TimingStart(o) == Len(LinePrefix(o)) + 1
TimingEnd(o)   == TimingStart(o) + Len(TimingGroup(o))
MemoryStart(o) == TimingEnd(o) + 1
MemoryEnd(o)   == MemoryStart(o) + Len(MemoryGroup(o))

\* The stray character is added outside both groups: not between the
\* parentheses of the timing group nor between those of the memory group.
StrayOutsideGroups(o) ==
    /\ o.kind = "timed"
    /\ o.stray # None
    /\ LET at == o.stray[1].at
       IN  /\ ~(TimingStart(o) < at /\ at < TimingEnd(o))
           /\ ~(MemoryStart(o) < at /\ at < MemoryEnd(o))

\* The line yields a record with the origin's duration and memory.
ExtractsDurationAndMemory(i) ==
    LET r == parse_line(output[i])
    IN  /\ r # None
        /\ r[1].timing_str = DurText(origin[i].dur)
        /\ r[1].nanos = DurNanos(origin[i].dur)
        /\ r[1].heap_allocation = origin[i].mem

\* C5: stray @, ( and ) characters added to a measurement line anywhere
\* outside the duration group and the memory group do not change the
\* outcome: parsing succeeds with the same duration token, the same
\* nanosecond value and the same memory text.
C5_StrayCharactersHarmless ==
    Parsed =>
        \A i \in DOMAIN origin :
            StrayOutsideGroups(origin[i]) =>
                /\ ExtractsDurationAndMemory(i)
                /\ bench.total_nanos = DurNanos(origin[i].dur)

\* C6: an untimed line <label>: <value> (<memory>) whose memory contains B
\* yields a record with empty time display, zero nanoseconds and the
\* memory text <memory>.
C6_UntimedLineKeepsMemory ==
    Parsed =>
        \A i \in DOMAIN origin :
            (origin[i].kind = "untimed" /\ Contains(origin[i].mem, "B")) =>
                /\ parse_line(output[i]) =
                       Some(Record(origin[i].label, "", ZeroNanos,
                                   origin[i].mem))
                /\ bench.total_nanos = ZeroNanos

RecordNanos(l) ==
    IF parse_line(l) = None THEN ZeroNanos ELSE parse_line(l)[1].nanos

RecordsOf(label) ==
    {i \in DOMAIN output :
        /\ parse_line(output[i]) # None
        /\ Contains(parse_line(output[i])[1].part, label)}

\* The display pair of a part is that of the last record with its label.
ShowsLastRecord(part, label) ==
    IF RecordsOf(label) = {} THEN part = None
    ELSE LET r == parse_line(output[Last(RecordsOf(label))])[1]
         IN  part = Some(<<r.timing_str, r.heap_allocation>>)

Measured(o) == o.kind = "timed" /\ o.stray = None /\ Contains(o.mem, "B")

\* C7: total_nanos is the sum of time_nanos over all records parsed from
\* the lines, whatever their label; records labelled neither Part 1 nor
\* Part 2 change neither part_1 nor part_2.
C7_TotalOverAllRecords ==
    Parsed =>
        /\ bench.total_nanos =
               SumNanos([i \in DOMAIN output |-> RecordNanos(output[i])])
        /\ ShowsLastRecord(bench.part_1, "Part 1")
        /\ ShowsLastRecord(bench.part_2, "Part 2")
        /\ (\A i \in DOMAIN origin : Measured(origin[i])) =>
               bench.total_nanos =
                   SumNanos([i \in DOMAIN origin |-> DurNanos(origin[i].dur)])

\* A record labelled Setup has been added to the total of a unit whose
\* Part 1 was measured too, and shows in no column.
C7_Witness ==
    /\ Parsed
    /\ Len(origin) = 2
    /\ origin[1].label = "Part 1" /\ origin[1].dur = Duration(2, 0, "s")
    /\ origin[2].label = "Setup"  /\ origin[2].dur = Duration(15, 1, "µs")
    /\ bench.total_nanos = Nanos(2000, 150000)
    /\ bench.part_1 = Some(<<"2s", "10B">>)
    /\ bench.part_2 = None

-----------------------------------------------------------------------------
(***************************************************************************)
(* template/commands/all.rs: run_solution                                  *)
(*                                                                         *)
(* Three processes: the calling thread (main_pc), the thread it spawns to  *)
(* drain stderr (thread_pc) and the child (cargo run).  The child makes    *)
(* the writes of its script, each a line to one of its two streams, and    *)
(* then exits, which closes both pipes.  A pipe holds at most PipeCap      *)
(* lines; a write to a full pipe blocks.  A reader sees end-of-file when   *)
(* the pipe is empty and the child has exited.  Lines are valid UTF-8, so  *)
(* line.unwrap() does not panic.  Both streams are Stdio::piped(), so      *)
(* cmd.stdout.take() and cmd.stderr.take() are Some and the BrokenPipe     *)
(* returns are not taken.                                                  *)
(***************************************************************************)
MaxWrites == 3   \* the child writes at most this many lines
PipeCap   == 1   \* lines a pipe holds before a write blocks

OutLines == {"Part 1: 0 (74.13ns @ 100000 samples) (10KB)", "Part 2: 10"}
ErrLines == {"warning: unused variable"}

Write(stream, line) == [stream |-> stream, line |-> line]
Writes == {Write("out", l) : l \in OutLines} \cup
          {Write("err", l) : l \in ErrLines}

ExitCodes == {0, 1}

\* Result<Vec<String>, Error>
Ok(lines) == [ok |-> TRUE, lines |-> lines, err |-> ""]
Err(e)    == [ok |-> FALSE, lines |-> <<>>, err |-> e]

InitRun ==
    /\ scaffolded \in BOOLEAN
    /\ io_error \in (IF scaffolded THEN {"none", "spawn", "wait"} ELSE {"none"})
    /\ script \in (IF scaffolded /\ io_error # "spawn"
                   THEN SeqsUpTo(Writes, MaxWrites) ELSE {<<>>})
    /\ exit_code \in (IF scaffolded /\ io_error # "spawn"
                      THEN ExitCodes ELSE {0})
    /\ child = "none"
    /\ stdout_pipe = <<>> /\ stderr_pipe = <<>>
    /\ wrote_out = <<>> /\ wrote_err = <<>>
    /\ main_pc = "start" /\ thread_pc = "idle"
    /\ console_out = <<>> /\ console_err = <<>>
    /\ status = None /\ ret = None
    /\ output = <<>>
    /\ IdlePatch /\ IdleParse

\* ---- the calling thread ----

\* if !Path::new(..).exists() { return Ok(vec![]); }
ReturnNotScaffolded ==
    /\ main_pc = "start"
    /\ ~scaffolded
    /\ ret' = Some(Ok(<<>>))
    /\ main_pc' = "done"
    /\ UNCHANGED <<patch_vars, parse_vars, output, scaffolded, io_error,
                   script, child, exit_code, stdout_pipe, stderr_pipe,
                   wrote_out, wrote_err, thread_pc, console_out, console_err,
                   status>>

\* Command::new("cargo")...spawn()?
SpawnChild ==
    /\ main_pc = "start"
    /\ scaffolded
    /\ IF io_error = "spawn"
       THEN /\ ret' = Some(Err("IO"))
            /\ main_pc' = "done"
            /\ child' = child
       ELSE /\ child' = "running"
            /\ main_pc' = "spawn_thread"
            /\ ret' = ret
    /\ UNCHANGED <<patch_vars, parse_vars, output, scaffolded, io_error,
                   script, exit_code, stdout_pipe, stderr_pipe, wrote_out,
                   wrote_err, thread_pc, console_out, console_err, status>>

\* let thread = thread::spawn(move || { stderr.lines().for_each(..) });
SpawnThread ==
    /\ main_pc = "spawn_thread"
    /\ thread_pc' = "read_stderr"
    /\ main_pc' = "read_stdout"
    /\ UNCHANGED <<patch_vars, parse_vars, output, scaffolded, io_error,
                   script, child, exit_code, stdout_pipe, stderr_pipe,
                   wrote_out, wrote_err, console_out, console_err, status,
                   ret>>

\* One turn of `for line in stdout.lines()`: println!, output.push(line).
ReadStdoutLine ==
    /\ main_pc = "read_stdout"
    /\ stdout_pipe # <<>>
    /\ console_out' = Append(console_out, Head(stdout_pipe))
    /\ output' = Append(output, Head(stdout_pipe))
    /\ stdout_pipe' = Tail(stdout_pipe)
    /\ UNCHANGED <<patch_vars, parse_vars, scaffolded, io_error, script,
                   child, exit_code, stderr_pipe, wrote_out, wrote_err,
                   main_pc, thread_pc, console_err, status, ret>>

\* stdout.lines() ends: the pipe is empty and its write end is closed.
StdoutEof ==
    /\ main_pc = "read_stdout"
    /\ stdout_pipe = <<>>
    /\ child = "exited"
    /\ main_pc' = "join"
    /\ UNCHANGED <<patch_vars, parse_vars, output, scaffolded, io_error,
                   script, child, exit_code, stdout_pipe, stderr_pipe,
                   wrote_out, wrote_err, thread_pc, console_out, console_err,
                   status, ret>>

\* thread.join().unwrap()
JoinThread ==
    /\ main_pc = "join"
    /\ thread_pc = "done"
    /\ main_pc' = "wait"
    /\ UNCHANGED <<patch_vars, parse_vars, output, scaffolded, io_error,
                   script, child, exit_code, stdout_pipe, stderr_pipe,
                   wrote_out, wrote_err, thread_pc, console_out, console_err,
                   status, ret>>

\* cmd.wait()?; Ok(output)
\* The ExitStatus is collected and dropped: only an Err of wait() returns
\* an error.
WaitAndReturn ==
    /\ main_pc = "wait"
    /\ child = "exited"
    /\ IF io_error = "wait"
       THEN /\ ret' = Some(Err("IO"))
            /\ status' = status
       ELSE /\ status' = Some(exit_code)
            /\ ret' = Some(Ok(output))
    /\ main_pc' = "done"
    /\ UNCHANGED <<patch_vars, parse_vars, output, scaffolded, io_error,
                   script, child, exit_code, stdout_pipe, stderr_pipe,
                   wrote_out, wrote_err, thread_pc, console_out, console_err>>

\* ---- the spawned thread ----

\* ReadStderrLine pushing the line to the output buffer as well.
ReadStderrLine_into_output ==
    /\ thread_pc = "read_stderr"
    /\ stderr_pipe # <<>>
    /\ console_err' = Append(console_err, Head(stderr_pipe))
    /\ output' = Append(output, Head(stderr_pipe))
    /\ stderr_pipe' = Tail(stderr_pipe)
    /\ UNCHANGED <<patch_vars, parse_vars, scaffolded, io_error,
                   script, child, exit_code, stdout_pipe, wrote_out,
                   wrote_err, main_pc, thread_pc, console_out, status, ret>>

\* ReadStderrLine when stderr is drained by the calling thread after the stdout
\* loop instead of concurrently.
ReadStderrLine_after_stdout ==
    /\ thread_pc = "read_stderr"
    /\ main_pc = "join"
    /\ stderr_pipe # <<>>
    /\ console_err' = Append(console_err, Head(stderr_pipe))
    /\ stderr_pipe' = Tail(stderr_pipe)
    /\ UNCHANGED <<patch_vars, parse_vars, output, scaffolded, io_error,
                   script, child, exit_code, stdout_pipe, wrote_out,
                   wrote_err, main_pc, thread_pc, console_out, status, ret>>

\* One turn of stderr.lines().for_each(|line| eprintln!(..)).
ReadStderrLine ==
    /\ thread_pc = "read_stderr"
    /\ stderr_pipe # <<>>
    /\ console_err' = Append(console_err, Head(stderr_pipe))
    /\ stderr_pipe' = Tail(stderr_pipe)
    /\ UNCHANGED <<patch_vars, parse_vars, output, scaffolded, io_error,
                   script, child, exit_code, stdout_pipe, wrote_out,
                   wrote_err, main_pc, thread_pc, console_out, status, ret>>

StderrEof ==
    /\ thread_pc = "read_stderr"
    /\ stderr_pipe = <<>>
    /\ child = "exited"
    /\ thread_pc' = "done"
    /\ UNCHANGED <<patch_vars, parse_vars, output, scaffolded, io_error,
                   script, child, exit_code, stdout_pipe, stderr_pipe,
                   wrote_out, wrote_err, main_pc, console_out, console_err,
                   status, ret>>

\* ---- the child ----

ChildWrite ==
    /\ child = "running"
    /\ script # <<>>
    /\ LET w == Head(script)
       IN  IF w.stream = "out"
           THEN /\ Len(stdout_pipe) < PipeCap
                /\ stdout_pipe' = Append(stdout_pipe, w.line)
                /\ wrote_out' = Append(wrote_out, w.line)
                /\ UNCHANGED <<stderr_pipe, wrote_err>>
           ELSE /\ Len(stderr_pipe) < PipeCap
                /\ stderr_pipe' = Append(stderr_pipe, w.line)
                /\ wrote_err' = Append(wrote_err, w.line)
                /\ UNCHANGED <<stdout_pipe, wrote_out>>
    /\ script' = Tail(script)
    /\ UNCHANGED <<patch_vars, parse_vars, output, scaffolded, io_error,
                   child, exit_code, main_pc, thread_pc, console_out,
                   console_err, status, ret>>

ChildExit ==
    /\ child = "running"
    /\ script = <<>>
    /\ child' = "exited"
    /\ UNCHANGED <<patch_vars, parse_vars, output, scaffolded, io_error,
                   script, exit_code, stdout_pipe, stderr_pipe, wrote_out,
                   wrote_err, main_pc, thread_pc, console_out, console_err,
                   status, ret>>

MainStep ==
    \/ ReturnNotScaffolded
    \/ SpawnChild
    \/ SpawnThread
    \/ ReadStdoutLine
    \/ StdoutEof
    \/ JoinThread
    \/ WaitAndReturn

ThreadStep == ReadStderrLine \/ StderrEof

ChildStep == ChildWrite \/ ChildExit

NextRun == MainStep \/ ThreadStep \/ ChildStep

SpecRun == InitRun /\ [][NextRun]_vars

\* The operating system schedules both threads and the child fairly.
SpecRunFair ==
    /\ SpecRun
    /\ WF_vars(MainStep)
    /\ WF_vars(ThreadStep)
    /\ WF_vars(ChildStep)

-----------------------------------------------------------------------------
(***************************************************************************)
(* Properties of run_solution                                            *)
(***************************************************************************)
Returned == ret # None

\* C8: when the child of a scaffolded unit ends with a non-zero exit
\* status, run_solution returns an error, not an Ok sequence of lines.
C8_NonZeroExitIsError ==
    (Returned /\ scaffolded /\ child = "exited" /\ exit_code # 0) =>
        ~ret[1].ok

ChildBlocked ==
    /\ child = "running"
    /\ script # <<>>
    /\ ~ENABLED ChildWrite

\* C10: the child is never blocked on a full pipe while neither the
\* calling thread nor the stderr thread can make progress, and under fair
\* scheduling run_solution eventually returns.
C10_NoDeadlockAndReturns ==
    /\ [](ChildBlocked => (ENABLED MainStep \/ ENABLED ThreadStep))
    /\ <>Returned

\* The state a serial drain cannot leave: the child is blocked on a full
\* stderr pipe while the calling thread waits for stdout, and the stderr
\* thread is there to read.
C10_Witness ==
    /\ ChildBlocked
    /\ Head(script).stream = "err"
    /\ main_pc = "read_stdout"
    /\ stdout_pipe = <<>>
    /\ ENABLED ThreadStep

=============================================================================
